---- MODULE Spec2Model ----
(***************************************************************************)
(* Soft deletion and audit tracking of cc/core/base_model.py:              *)
(* BaseQuerySet (create / update / delete), BaseManager and                *)
(* NotDeletedManager (the "everything" and "objects" views) and BaseModel  *)
(* (save / delete), over a table of rows and the in-memory model instances *)
(* application code holds.  The framework's Model.save writes every field  *)
(* of the instance (INSERT without a primary key, UPDATE with one) and     *)
(* QuerySet.update is one statement over the matched rows.                 *)
(***************************************************************************)
EXTENDS Integers, FiniteSets

\* ---------------------------------------------------------------- bounds
MaxPk == 2
NumHandles == 1
MaxTime == 4

\* ---------------------------------------------------------------- values
\* None; users, primary keys and timestamps are positive integers
Null == 0
Users == {1}
UserOpt == Users \cup {Null}
Names == {"a", "b"}
Pks == 1..MaxPk
Handles == 1..NumHandles
Managers == {"everything", "objects"}
NoObj == [pk |-> -1]

\* the columns BaseModel declares, and the data column of a concrete model
AuditFields == {"created_by", "modified_by", "deleted_by",
                "created_on", "modified_on", "deleted_on"}
FieldNames == AuditFields \cup {"name"}

\* keyword arguments a caller may pass to QuerySet.update
UpdateAttrs ==
    {[k \in {} |-> Null]}
      \cup {[k \in {"name"} |-> n] : n \in Names}
      \cup {[k \in {"created_by"} |-> u] : u \in UserOpt}
      \cup {[k \in {"modified_by"} |-> u] : u \in Users}

\* the filters of a bulk operation: one primary key, or the whole view
Filters(table) == {{r} : r \in DOMAIN table} \cup {DOMAIN table}

\* keyword arguments a caller may pass to the model constructor
InitKwargs ==
    {kw \in [pk : {Null}, name : {"a"}, created_by : UserOpt, modified_by : UserOpt] :
        kw.created_by = kw.modified_by}

\* keyword arguments a caller may pass to QuerySet.create
CreateAttrs ==
    {kw \in [pk : Pks \cup {Null}, name : {"a"},
             created_by : UserOpt, modified_by : UserOpt] :
        kw.created_by = kw.modified_by}

VARIABLES db, inst, clock, last
vars == <<db, inst, clock, last>>

\* ---------------------------------------------------------------- helpers
utcnow == clock

\* truth value of a primary key: None and 0 are false
Truthy(pk) == pk # Null /\ pk # 0

\* Model(**kwargs): field defaults of BaseModel
ModelInit(kwargs, now) ==
    [pk          |-> kwargs.pk,
     name        |-> kwargs.name,
     created_by  |-> kwargs.created_by,
     modified_by |-> kwargs.modified_by,
     deleted_by  |-> Null,
     created_on  |-> now,
     modified_on |-> now,
     deleted_on  |-> Null]

RowOf(obj) == [f \in FieldNames |-> obj[f]]

ObjOf(pk, row) ==
    [pk          |-> pk,
     name        |-> row["name"],
     created_by  |-> row["created_by"],
     modified_by |-> row["modified_by"],
     deleted_by  |-> row["deleted_by"],
     created_on  |-> row["created_on"],
     modified_on |-> row["modified_on"],
     deleted_on  |-> row["deleted_on"]]

MaxOf(S) == CHOOSE x \in S : \A y \in S : y <= x

NextPk(table) == IF DOMAIN table = {} THEN 1 ELSE MaxOf(DOMAIN table) + 1

\* models.Model.save: the primary key the instance has after the save
SavedPk(table, obj) == IF obj.pk = Null THEN NextPk(table) ELSE obj.pk

\* models.Model.save: every field of the instance is written to its row
SuperSave(table, obj) ==
    LET pk == SavedPk(table, obj)
    IN [r \in DOMAIN table \cup {pk} |->
          IF r = pk THEN RowOf(obj) ELSE table[r]]

\* QuerySet.update: one statement setting the given columns on matched rows
SuperUpdate(table, matched, kw) ==
    [r \in DOMAIN table |->
       IF r \in matched
       THEN [f \in FieldNames |-> IF f \in DOMAIN kw THEN kw[f] ELSE table[r][f]]
       ELSE table[r]]

\* ---------------------------------------------------------------- BaseQuerySet
CreateKwargs(kwargs, user) ==
    [kwargs EXCEPT !.created_by = user, !.modified_by = user]

UpdateKwargsSetDefault(kwargs, user, now) ==
    [k \in DOMAIN kwargs \cup {"modified_by", "modified_on"} |->
       CASE k \in DOMAIN kwargs -> kwargs[k]
         [] k = "modified_by" -> user
         [] OTHER -> now]

UpdateKwargs(kwargs, user, now) ==
    [k \in DOMAIN kwargs \cup {"modified_by", "modified_on"} |->
       CASE k = "modified_by" -> user
         [] k = "modified_on" -> now
         [] OTHER -> kwargs[k]]

DeleteKwargs(user, now) ==
    [k \in {"deleted_by", "deleted_on"} |->
       IF k = "deleted_by" THEN user ELSE now]

\* ---------------------------------------------------------------- managers
BaseManagerQuerySet(table) == DOMAIN table

NotDeletedQuerySetUnfiltered(table) == BaseManagerQuerySet(table)

NotDeletedQuerySet(table) ==
    {r \in BaseManagerQuerySet(table) : table[r]["deleted_on"] = Null}

QuerySetOf(m, table) ==
    IF m = "objects" THEN NotDeletedQuerySet(table) ELSE BaseManagerQuerySet(table)

\* ---------------------------------------------------------------- BaseModel
SaveStampAnyPk(obj, user, now) ==
    LET o1 == IF user # Null THEN [obj EXCEPT !.created_by = user] ELSE obj
        o2 == IF Truthy(o1.pk) \/ user # Null
              THEN [o1 EXCEPT !.modified_by = user] ELSE o1
    IN [o2 EXCEPT !.modified_on = now]

SaveStampBackfill(obj, user, now) ==
    LET o1 == IF obj.created_by = Null /\ user # Null
              THEN [obj EXCEPT !.created_by = user] ELSE obj
        o2 == IF Truthy(o1.pk) \/ user # Null
              THEN [o1 EXCEPT !.modified_by = user] ELSE o1
    IN [o2 EXCEPT !.modified_on = now]

SaveStampAlways(obj, user, now) ==
    LET o1 == IF obj.pk = Null /\ user # Null
              THEN [obj EXCEPT !.created_by = user] ELSE obj
    IN [o1 EXCEPT !.modified_by = user, !.modified_on = now]

SaveStamp(obj, user, now) ==
    LET o1 == IF obj.pk = Null /\ user # Null
              THEN [obj EXCEPT !.created_by = user] ELSE obj
        o2 == IF Truthy(o1.pk) \/ user # Null
              THEN [o1 EXCEPT !.modified_by = user] ELSE o1
    IN [o2 EXCEPT !.modified_on = now]

DeleteStamp(obj, user, now) ==
    [obj EXCEPT !.deleted_by = user, !.deleted_on = now]

\* ---------------------------------------------------------------- state machine
\* the last operation: its arguments, the rows it addressed and the time it
\* ran at (time passes with every operation)
Op(op, h, user, pks, attrs, inserted, now) ==
    [op |-> op, h |-> h, user |-> user, pks |-> pks, view |-> "everything",
     attrs |-> attrs, inserted |-> inserted, now |-> now]

Init ==
    /\ db = [r \in {} |-> NoObj]
    /\ inst = [h \in Handles |-> NoObj]
    /\ clock = 1
    /\ last = Op("init", 0, Null, {}, {}, FALSE, 0)

\* obj = Model(**kwargs)
New(h, kwargs) ==
    /\ clock < MaxTime
    /\ inst' = [inst EXCEPT ![h] = ModelInit(kwargs, utcnow)]
    /\ clock' = clock + 1
    /\ last' = Op("new", h, Null, {}, {}, FALSE, utcnow)
    /\ UNCHANGED db

\* obj = Model.everything.create(user=user, **kwargs)
Create(h, kwargs, user) ==
    LET obj == SaveStamp(ModelInit(CreateKwargs(kwargs, user), utcnow), Null, utcnow)
        pk  == SavedPk(db, obj)
    IN /\ clock < MaxTime
       /\ pk \in Pks
       /\ pk \notin DOMAIN db
       /\ db' = SuperSave(db, obj)
       /\ inst' = [inst EXCEPT ![h] = [obj EXCEPT !.pk = pk]]
       /\ clock' = clock + 1
       /\ last' = Op("create", h, user, {pk}, {}, TRUE, utcnow)

\* obj = Model.<manager>.get(pk=pk)
Load(h, m, pk) ==
    /\ clock < MaxTime
    /\ pk \in QuerySetOf(m, db)
    /\ inst' = [inst EXCEPT ![h] = ObjOf(pk, db[pk])]
    /\ clock' = clock + 1
    /\ last' = Op("load", h, Null, {pk}, {}, FALSE, utcnow)
    /\ UNCHANGED db

\* list(Model.<manager>.all())
List(m) ==
    /\ clock < MaxTime
    /\ clock' = clock + 1
    /\ last' = [Op("list", 0, Null, QuerySetOf(m, db), {}, FALSE, utcnow)
                  EXCEPT !.view = m]
    /\ UNCHANGED <<db, inst>>

\* obj.name = n
SetName(h, n) ==
    /\ clock < MaxTime
    /\ inst[h] # NoObj
    /\ inst[h].name # n
    /\ inst' = [inst EXCEPT ![h].name = n]
    /\ clock' = clock + 1
    /\ last' = Op("setattr", h, Null, {}, {"name"}, FALSE, utcnow)
    /\ UNCHANGED db

\* obj.save(user=user)
Save(h, user) ==
    LET obj == SaveStamp(inst[h], user, utcnow)
        pk  == SavedPk(db, obj)
    IN /\ clock < MaxTime
       /\ inst[h] # NoObj
       /\ pk \in Pks
       /\ db' = SuperSave(db, obj)
       /\ inst' = [inst EXCEPT ![h] = [obj EXCEPT !.pk = pk]]
       /\ clock' = clock + 1
       /\ last' = Op("save", h, user, {pk}, {},
                     pk \notin DOMAIN db, utcnow)

\* obj.delete(user=user)
Delete(h, user) ==
    LET obj == DeleteStamp(inst[h], user, utcnow)
        pk  == SavedPk(db, obj)
    IN /\ clock < MaxTime
       /\ inst[h] # NoObj
       /\ pk \in Pks
       /\ db' = SuperSave(db, obj)
       /\ inst' = [inst EXCEPT ![h] = [obj EXCEPT !.pk = pk]]
       /\ clock' = clock + 1
       /\ last' = Op("delete", h, user, {pk}, {},
                     pk \notin DOMAIN db, utcnow)

\* Model.<manager>.filter(pk__in=F).update(user=user, **kwargs)
BulkUpdate(m, F, kwargs, user) ==
    LET matched == QuerySetOf(m, db) \cap F
    IN /\ clock < MaxTime
       /\ db' = SuperUpdate(db, matched, UpdateKwargs(kwargs, user, utcnow))
       /\ clock' = clock + 1
       /\ last' = Op("bulk_update", 0, user, matched, DOMAIN kwargs,
                     FALSE, utcnow)
       /\ UNCHANGED inst

\* Model.<manager>.filter(pk__in=F).delete(user=user)
BulkDelete(m, F, user) ==
    LET matched == QuerySetOf(m, db) \cap F
    IN /\ clock < MaxTime
       /\ db' = SuperUpdate(db, matched, DeleteKwargs(user, utcnow))
       /\ clock' = clock + 1
       /\ last' = Op("bulk_delete", 0, user, matched, {}, FALSE, utcnow)
       /\ UNCHANGED inst

Next ==
    \/ \E h \in Handles, kw \in InitKwargs : New(h, kw)
    \/ \E h \in Handles, kw \in CreateAttrs, u \in UserOpt : Create(h, kw, u)
    \/ \E h \in Handles, m \in Managers, pk \in Pks : Load(h, m, pk)
    \/ \E m \in Managers : List(m)
    \/ \E h \in Handles, n \in Names : SetName(h, n)
    \/ \E h \in Handles, u \in UserOpt : Save(h, u)
    \/ \E h \in Handles, u \in UserOpt : Delete(h, u)
    \/ \E m \in Managers, F \in Filters(db), kw \in UpdateAttrs, u \in UserOpt :
           BulkUpdate(m, F, kw, u)
    \/ \E m \in Managers, F \in Filters(db), u \in UserOpt : BulkDelete(m, F, u)

Spec == Init /\ [][Next]_vars

\* ---------------------------------------------------------------- properties
\* a step in which an operation ran
Ran(op) == clock' = clock + 1 /\ last'.op = op

\* the instance the last operation was called on, and the row it addressed
LastPk == CHOOSE r \in last.pks : TRUE

\* C1: single-record delete(actor) leaves the row with deleted_on set and
\* deleted_by = actor, and the row's stored modified_on and modified_by are
\* the values storage held just before the delete.
C1_DeleteKeepsStoredModification ==
    [][Ran("delete") =>
         \A r \in last'.pks :
            /\ db'[r]["deleted_on"] # Null
            /\ db'[r]["deleted_by"] = last'.user
            /\ r \in DOMAIN db =>
                  /\ db'[r]["modified_on"] = db[r]["modified_on"]
                  /\ db'[r]["modified_by"] = db[r]["modified_by"]]_vars

\* C2: create(attributes, actor) returns a persisted record whose created_by
\* and modified_by are both the actor (null without one), whatever the
\* attributes carry.
C2_CreateStampsBoth ==
    last.op = "create" =>
        \A r \in last.pks :
           /\ r \in DOMAIN db
           /\ db[r]["created_by"] = last.user
           /\ db[r]["modified_by"] = last.user
           /\ inst[last.h] = ObjOf(r, db[r])

\* C3: the "objects" view holds exactly the stored rows whose deleted_on is
\* null, and the "everything" view holds every stored row.
C3_Views ==
    last.op = "list" =>
        /\ last.view = "objects" =>
              /\ \A r \in last.pks : r \in DOMAIN db /\ db[r]["deleted_on"] = Null
              /\ \A r \in DOMAIN db : db[r]["deleted_on"] = Null => r \in last.pks
        /\ last.view = "everything" => last.pks = DOMAIN db

C3_Witness ==
    /\ last.op = "list"
    /\ last.view = "objects"
    /\ \E r \in DOMAIN db : db[r]["deleted_on"] # Null /\ r \notin last.pks

\* C4: a bulk update stamps every matched row with the same modified_by (the
\* actor) and modified_on in one step and touches no other row; a bulk delete
\* stamps every matched row with the same deleted_by and deleted_on and
\* changes modified_on and modified_by on none.
C4_BulkUniform ==
    [][/\ Ran("bulk_update") =>
            /\ DOMAIN db' = DOMAIN db
            /\ \A r \in last'.pks :
                  /\ db'[r]["modified_by"] = last'.user
                  /\ db'[r]["modified_on"] = last'.now
            /\ \A r \in DOMAIN db \ last'.pks : db'[r] = db[r]
       /\ Ran("bulk_delete") =>
            /\ DOMAIN db' = DOMAIN db
            /\ \A r \in last'.pks :
                  /\ db'[r]["deleted_by"] = last'.user
                  /\ db'[r]["deleted_on"] = last'.now
                  /\ db'[r]["modified_on"] = db[r]["modified_on"]
                  /\ db'[r]["modified_by"] = db[r]["modified_by"]
            /\ \A r \in DOMAIN db \ last'.pks : db'[r] = db[r]]_vars

C4_Witness ==
    /\ last.op = "bulk_update"
    /\ Cardinality(last.pks) >= 2
    /\ \A r \in last.pks : db[r]["modified_on"] = last.now

\* C5 as stated: no operation changes a stored row's created_on or created_by.
C5_CreationNeverChanges ==
    [][\A r \in DOMAIN db :
          /\ r \in DOMAIN db'
          /\ db'[r]["created_on"] = db[r]["created_on"]
          /\ db'[r]["created_by"] = db[r]["created_by"]]_vars

\* the in-memory instances of row r carry its stored creation metadata
CreationInSync(r) ==
    \A h \in Handles :
       (inst[h] # NoObj /\ inst[h].pk = r) =>
          /\ inst[h].created_on = db[r]["created_on"]
          /\ inst[h].created_by = db[r]["created_by"]

\* C5 amended: save, delete, bulk delete and a bulk update whose attributes
\* name neither created_on nor created_by leave a stored row's created_on and
\* created_by unchanged, the in-memory instances of the row carrying the
\* stored creation metadata.
C5_CreationFixed ==
    [][\A r \in DOMAIN db :
          (/\ ~(Ran("bulk_update") /\ last'.attrs \cap {"created_on", "created_by"} # {})
           /\ CreationInSync(r)) =>
             /\ r \in DOMAIN db'
             /\ db'[r]["created_on"] = db[r]["created_on"]
             /\ db'[r]["created_by"] = db[r]["created_by"]]_vars

C5_Witness ==
    /\ last.op = "save"
    /\ ~last.inserted
    /\ last.user # Null
    /\ db[LastPk]["created_by"] # last.user
    /\ db[LastPk]["modified_by"] = last.user
    /\ db[LastPk]["created_on"] < db[LastPk]["modified_on"]

\* C6: a first save() with no actor on a new instance whose created_by is
\* null stores created_by null, and a later save(actor=B) on the persisted
\* record stores modified_by = B and leaves created_by null.
C6_NoRetroactiveCreator ==
    [][Ran("save") =>
         LET old == inst[last'.h]
             r   == inst'[last'.h].pk
         IN /\ (old.pk = Null /\ last'.user = Null /\ old.created_by = Null) =>
                  db'[r]["created_by"] = Null
            /\ (old.pk # Null /\ old.created_by = Null) =>
                  /\ db'[r]["created_by"] = Null
                  /\ db'[r]["modified_by"] = last'.user]_vars

C6_Witness ==
    /\ last.op = "save"
    /\ ~last.inserted
    /\ last.user # Null
    /\ db[LastPk]["created_by"] = Null
    /\ db[LastPk]["modified_by"] = last.user
    /\ db[LastPk]["created_on"] < db[LastPk]["modified_on"] - 1

\* C7: from one stored state and with one actor, save on an instance and a
\* bulk update (of the instance's data attributes) over its row alone store
\* the same row, and so do delete on the instance and a bulk delete over its
\* row alone.
C7_SingleEqualsBulk ==
    \A h \in Handles, u \in UserOpt :
       (inst[h] # NoObj /\ inst[h].pk \in DOMAIN db) =>
          LET r == inst[h].pk
              data == [k \in {"name"} |-> inst[h].name]
          IN /\ SuperSave(db, SaveStamp(inst[h], u, utcnow))[r]
                  = SuperUpdate(db, {r}, UpdateKwargs(data, u, utcnow))[r]
             /\ SuperSave(db, DeleteStamp(inst[h], u, utcnow))[r]
                  = SuperUpdate(db, {r}, DeleteKwargs(u, utcnow))[r]

\* C8: single-record delete(actor) stores deleted_by and deleted_on only:
\* every other stored attribute of the row keeps its stored value.
C8_DeleteWritesTwoFields ==
    [][Ran("delete") =>
         \A r \in last'.pks \cap DOMAIN db :
            \A f \in FieldNames \ {"deleted_by", "deleted_on"} :
               db'[r][f] = db[r][f]]_vars

\* C9 as stated: every save stores modified_on = now and modified_by = the
\* actor, null when no actor is given.
C9_SaveStampsActor ==
    [][Ran("save") =>
         LET r == inst'[last'.h].pk
         IN /\ db'[r]["modified_on"] = last'.now
            /\ db'[r]["modified_by"] = last'.user]_vars

\* C9 amended: every save stores modified_on = now; it stores modified_by =
\* the actor when an actor is given or the instance already has a primary key
\* (null when it has one and no actor is given), and a save with no actor of
\* an instance without a primary key stores the modified_by the instance
\* carries.
C9_SaveStamps ==
    [][Ran("save") =>
         LET old == inst[last'.h]
             r   == inst'[last'.h].pk
         IN /\ db'[r]["modified_on"] = last'.now
            /\ db'[r]["modified_by"] =
                  IF old.pk # Null \/ last'.user # Null
                  THEN last'.user ELSE old.modified_by]_vars

C9_Witness ==
    /\ last.op = "save"
    /\ last.inserted
    /\ last.user = Null
    /\ db[LastPk]["modified_by"] # Null
    /\ db[LastPk]["modified_on"] = last.now

\* C10: once a row's stored deleted_on is non-null it stays non-null.
C10_DeletionAbsorbing ==
    [][\A r \in DOMAIN db :
          db[r]["deleted_on"] # Null =>
             (r \in DOMAIN db' /\ db'[r]["deleted_on"] # Null)]_vars

====
